---- MODULE Spec2Model ----
(***************************************************************************)
(* Model of the localization management API                                *)
(* (src/src/localization_management_api: main.py, database.py, models.py). *)
(*                                                                         *)
(* Python strings are sequences of symbols (a symbol stands for a          *)
(* character or for a whole word), so that concatenation, strip() and      *)
(* case folding are computed and not assumed.  None is the value NoneV.    *)
(* An optional JSON field is a sequence of length 0 (absent) or 1.         *)
(***************************************************************************)
EXTENDS Integers, Sequences, FiniteSets, TLC

VARIABLES
    supabase,           \* database.py: the module-level client, "client" or "None"
    translation_keys,   \* datastore table translation_keys: sequence of rows
    translations,       \* datastore table translations: sequence of rows
    req,                \* the request being answered
    resp,               \* the response sent for req
    calls,              \* the datastore operations executed on behalf of req
    running             \* the requests that run concurrently: the locals of
                        \* each handler call

vars == <<supabase, translation_keys, translations, req, resp, calls, running>>

----------------------------------------------------------------------------
(* Bounds of the model *)

\* largest number of ids in one bulk request
MaxBatch == 2
\* datetime.now() returns a time in 1..MaxClock
MaxClock == 2
\* largest number of records in a datastore answer that is given, not computed
MaxRecords == 2
\* largest number of translations nested in one such record
MaxTranslations == 2
\* number of update requests that run concurrently
MaxRequests == 2

----------------------------------------------------------------------------
(* Values *)

NoneV == <<"None">>

\* Python truthiness of an Optional[str]: None and "" are falsy
Truthy(s) == s # NoneV /\ s # <<>>

Absent == <<>>
Some(v) == <<v>>
IsPresent(o) == o # <<>>
The(o) == o[1]

T1 == <<"t1">>
T2 == <<"t2">>
ZZ == <<"zz">>
BULK == <<"bulk">>
BLANK == <<" ">>
V0 == <<"v0">>
V1 == <<"v1">>
V2 == <<"v2">>
ALICE == <<"alice">>
K1 == <<"k1">>
K2 == <<"k2">>
K3 == <<"k3">>
KX == <<"kx">>
CREATED == <<"2025-01-01T00:00:00+00:00">>
DbError == <<"Database connection failed">>

Times == 1..MaxClock

\* datetime.isoformat(): a string, one per instant
Isoformat(t) == <<ToString(t)>>

Min(S) == CHOOSE x \in S : \A y \in S : x <= y

\* the elements of s at the indices in S, in order
RECURSIVE SubSeqAt(_, _, _)
SubSeqAt(s, S, i) ==
    IF i > Len(s) THEN <<>>
    ELSE (IF i \in S THEN <<s[i]>> ELSE <<>>) \o SubSeqAt(s, S, i + 1)

\* str.strip(): leading and trailing whitespace removed
IsSpace(c) == c = " "
RECURSIVE LStrip(_)
LStrip(s) == IF s # <<>> /\ IsSpace(Head(s)) THEN LStrip(Tail(s)) ELSE s
RECURSIVE RStrip(_)
RStrip(s) ==
    IF s # <<>> /\ IsSpace(s[Len(s)]) THEN RStrip(SubSeq(s, 1, Len(s) - 1)) ELSE s
Strip(s) == RStrip(LStrip(s))

----------------------------------------------------------------------------
(* The datastore: two tables behind the client *)

InitTranslationKeys ==
    << [id |-> K1, key |-> <<"button", ".", "save">>, category |-> <<"buttons">>,
        description |-> <<"Save button text">>,
        created_at |-> CREATED, updated_at |-> CREATED],
       [id |-> K2, key |-> <<"BUTTON", ".", "cancel">>, category |-> NoneV,
        description |-> NoneV,
        created_at |-> CREATED, updated_at |-> CREATED],
       [id |-> K3, key |-> <<"title">>, category |-> <<"pages">>,
        description |-> NoneV,
        created_at |-> CREATED, updated_at |-> NoneV] >>

InitTranslations ==
    << [id |-> T1, translation_key_id |-> K1, language_code |-> <<"en">>,
        value |-> V0, updated_at |-> CREATED, updated_by |-> <<"system">>],
       [id |-> T2, translation_key_id |-> K1, language_code |-> <<"es">>,
        value |-> V0, updated_at |-> CREATED, updated_by |-> <<"system">>] >>

\* one step of the query builder: .eq(column, arg), .ilike(column, arg),
\* .range(lo, hi) (arg is <<lo, hi>>), .limit(n) (arg is <<n>>)
Filter(op, column, arg) == [op |-> op, column |-> column, arg |-> arg]

\* one executed datastore operation: the table, select or update, the update's
\* payload, the builder steps in call order, whether execute() raised, and
\* the rows it returned
Call(table, op, payload, filters, raised, data) ==
    [table |-> table, op |-> op, payload |-> payload, filters |-> filters,
     raised |-> raised, data |-> data]

\* supabase.table("translations").update(payload).eq("id", id).execute()
\* raised: the client raises and nothing is written.
\* Otherwise every row whose id equals id gets the payload's fields, and the
\* updated rows are returned as data.
ExecUpdate(tbl, id, payload, raised) ==
    LET hit == {i \in 1..Len(tbl) : tbl[i].id = id}
        new == [i \in 1..Len(tbl) |->
                   IF i \in hit
                   THEN [tbl[i] EXCEPT !.value = payload.value,
                                       !.updated_by = payload.updated_by,
                                       !.updated_at = payload.updated_at]
                   ELSE tbl[i]]
        data == IF raised THEN <<>> ELSE SubSeqAt(new, hit, 1)
    IN [raised |-> raised, data |-> data,
        tbl |-> IF raised THEN tbl ELSE new,
        call |-> Call("translations", "update", Some(payload),
                      <<Filter("eq", "id", id)>>, raised, data)]

\* case folding of a symbol
Lower(c) == IF c = "BUTTON" THEN "button" ELSE IF c = "SAVE" THEN "save" ELSE c

\* ILIKE: % matches any run of symbols, _ any one symbol, any other symbol
\* itself without regard to case
RECURSIVE ILike(_, _)
ILike(str, pat) ==
    IF pat = <<>> THEN str = <<>>
    ELSE IF Head(pat) = "%"
    THEN ILike(str, Tail(pat)) \/ (str # <<>> /\ ILike(Tail(str), pat))
    ELSE IF Head(pat) = "_"
    THEN str # <<>> /\ ILike(Tail(str), Tail(pat))
    ELSE /\ str # <<>>
         /\ Lower(Head(str)) = Lower(Head(pat))
         /\ ILike(Tail(str), Tail(pat))

\* the nested select of a key row: its columns and the list of its
\* translations (id, language_code, value, updated_at, updated_by)
EmbedTranslations(k, tr) ==
    LET own == {i \in 1..Len(tr) : tr[i].translation_key_id = k.id}
        cols == [i \in 1..Len(tr) |->
                    [id |-> tr[i].id, language_code |-> tr[i].language_code,
                     value |-> tr[i].value, updated_at |-> tr[i].updated_at,
                     updated_by |-> tr[i].updated_by]]
    IN [id |-> k.id, key |-> k.key, category |-> k.category,
        description |-> k.description, created_at |-> k.created_at,
        updated_at |-> k.updated_at,
        translations |-> SubSeqAt(cols, own, 1)]

\* a row passes an eq or ilike step; a null column equals nothing
RowPasses(row, f) ==
    IF f.op = "eq" THEN row[f.column] # NoneV /\ row[f.column] = f.arg
    ELSE IF f.op = "ilike"
    THEN row[f.column] # NoneV /\ ILike(row[f.column], f.arg)
    ELSE TRUE

\* .range(lo, hi) keeps the rows at the 0-based positions lo..hi and
\* .limit(n) the first n rows of what the other steps let through
RECURSIVE Window(_, _, _)
Window(rows, filters, i) ==
    IF i > Len(filters) THEN rows
    ELSE LET f == filters[i]
             cut == IF f.op = "range"
                    THEN SubSeqAt(rows, (f.arg[1] + 1)..(f.arg[2] + 1), 1)
                    ELSE IF f.op = "limit"
                    THEN SubSeqAt(rows, 1..f.arg[1], 1)
                    ELSE rows
         IN Window(cut, filters, i + 1)

\* supabase.table("translation_keys").select(<key columns, translations(...)>)
\*     <filters>.execute()
ExecSelectKeys(keys, tr, filters, raised) ==
    LET rows == [i \in 1..Len(keys) |-> EmbedTranslations(keys[i], tr)]
        pass == {i \in 1..Len(rows) :
                    \A j \in 1..Len(filters) : RowPasses(rows[i], filters[j])}
        data == IF raised THEN <<>>
                ELSE Window(SubSeqAt(rows, pass, 1), filters, 1)
    IN [raised |-> raised, data |-> data,
        call |-> Call("translation_keys", "select", Absent, filters, raised,
                      data)]

\* supabase.table("translation_keys").select("id").limit(1).execute()
ExecSelectIds(keys, filters, raised) ==
    LET rows == [i \in 1..Len(keys) |-> [id |-> keys[i].id]]
        data == IF raised THEN <<>> ELSE Window(rows, filters, 1)
    IN [raised |-> raised, data |-> data,
        call |-> Call("translation_keys", "select", Absent, filters, raised,
                      data)]

\* supabase.table("translation_keys")
\*     .select("key, translations:translations!inner(language_code, value)")
\*     .eq("translations.language_code", locale).execute():
\* the inner join keeps the translations that pass the filter and the keys
\* that have at least one of them
ExecSelectLocalizations(keys, tr, filters, raised) ==
    LET emb(k) ==
            LET own == {i \in 1..Len(tr) :
                          /\ tr[i].translation_key_id = k.id
                          /\ \A j \in 1..Len(filters) :
                                filters[j].column = "translations.language_code"
                                => tr[i].language_code = filters[j].arg}
                cols == [i \in 1..Len(tr) |->
                            [language_code |-> tr[i].language_code,
                             value |-> tr[i].value]]
            IN [key |-> k.key, translations |-> SubSeqAt(cols, own, 1)]
        rows == [i \in 1..Len(keys) |-> emb(keys[i])]
        pass == {i \in 1..Len(rows) : rows[i].translations # <<>>}
        data == IF raised THEN <<>> ELSE SubSeqAt(rows, pass, 1)
    IN [raised |-> raised, data |-> data,
        call |-> Call("translation_keys", "select", Absent, filters, raised,
                      data)]

\* database.py: check_supabase_connection(); FALSE when it raises
check_supabase_connection(sb) == sb # "None"

ConnectionDetail ==
    <<"Database connection not available. Please check Supabase configuration.">>

\* a field a pydantic str field accepts: present and not None
IsStr(raw, f) == f \in DOMAIN raw /\ raw[f] # NoneV

TranslationFields == {"id", "language_code", "value", "updated_at", "updated_by"}

\* database.py: format_translation_key_response(raw_data).
\* FormatOk: no KeyError and no validation error is raised
FormatOk(raw) ==
    /\ "translations" \in DOMAIN raw =>
          \A i \in 1..Len(raw.translations) :
              \A f \in TranslationFields : IsStr(raw.translations[i], f)
    /\ \A f \in {"id", "key", "created_at", "updated_at"} : IsStr(raw, f)
    /\ "category" \in DOMAIN raw

\* format_translation_key_response with the translations appended in
\* reverse
format_translation_key_response_Reversed(raw) ==
    LET ts == IF "translations" \in DOMAIN raw THEN raw.translations ELSE <<>>
    IN [id |-> raw.id,
        key |-> raw.key,
        category |-> IF Truthy(raw.category) THEN raw.category ELSE <<>>,
        description |-> IF "description" \in DOMAIN raw THEN raw.description
                        ELSE NoneV,
        translations |->
            [i \in 1..Len(ts) |->
                LET t == ts[Len(ts) + 1 - i]
                IN [id |-> t.id, language_code |-> t.language_code,
                    value |-> t.value, updated_at |-> t.updated_at,
                    updated_by |-> t.updated_by]],
        created_at |-> raw.created_at,
        updated_at |-> raw.updated_at]

format_translation_key_response(raw) ==
    LET ts == IF "translations" \in DOMAIN raw THEN raw.translations ELSE <<>>
    IN [id |-> raw.id,
        key |-> raw.key,
        category |-> IF Truthy(raw.category) THEN raw.category ELSE <<>>,
        description |-> IF "description" \in DOMAIN raw THEN raw.description
                        ELSE NoneV,
        translations |->
            [i \in 1..Len(ts) |->
                [id |-> ts[i].id, language_code |-> ts[i].language_code,
                 value |-> ts[i].value, updated_at |-> ts[i].updated_at,
                 updated_by |-> ts[i].updated_by]],
        created_at |-> raw.created_at,
        updated_at |-> raw.updated_at]

----------------------------------------------------------------------------
(* models.py *)

\* TranslationUpdate: value required, updated_by defaults to "user";
\* fields the model does not declare are ignored
TranslationUpdateValid(body) == IsPresent(body.value)
TranslationUpdate(body) ==
    [value |-> The(body.value),
     updated_by |-> IF IsPresent(body.updated_by) THEN The(body.updated_by)
                    ELSE <<"user">>]

\* BulkTranslationUpdate: updates is required and is a dict (here a sequence
\* of <<id, value>> pairs with distinct ids, in the dict's order) of at least
\* min_length entries; the two field validators; updated_by defaults to
\* "bulk_user"
min_length == 1
validate_updates_not_empty(v) == v # <<>>
\* validate_translation_ids without the strip()
validate_translation_ids_NoStrip(v) == \A i \in 1..Len(v) : v[i][1] # <<>>
validate_translation_ids(v) == \A i \in 1..Len(v) : Strip(v[i][1]) # <<>>
BulkTranslationUpdateValid(body) ==
    /\ IsPresent(body.updates)
    /\ Len(The(body.updates)) >= min_length
    /\ validate_updates_not_empty(The(body.updates))
    /\ validate_translation_ids(The(body.updates))
BulkTranslationUpdate(body) ==
    [updates |-> The(body.updates),
     updated_by |-> IF IsPresent(body.updated_by) THEN The(body.updated_by)
                    ELSE <<"bulk_user">>]

----------------------------------------------------------------------------
(* main.py: handlers.  A handler's outcome is                              *)
(* [status, body, translations, calls].                                    *)

Outcome(status, body, tbl, cs) ==
    [status |-> status, body |-> body, translations |-> tbl, calls |-> cs]

\* root()
root(tr) ==
    Outcome(200, [message |-> <<"Helium Localization Manager API">>,
                  version |-> <<"1.0.0">>, status |-> <<"running">>], tr, <<>>)

\* health_check with the connection check before the try block, as the
\* other handlers have it
health_check_CheckOutsideTry(sb, keys, tr, raised, t) ==
    IF ~check_supabase_connection(sb)
    THEN Outcome(500, [detail |-> ConnectionDetail], tr, <<>>)
    ELSE LET ex == ExecSelectIds(keys, <<Filter("limit", "", <<1>>)>>, raised)
         IN IF ex.raised
            THEN Outcome(200, [status |-> <<"unhealthy">>,
                               database |-> <<"disconnected">>,
                               error |-> DbError,
                               timestamp |-> Isoformat(t)], tr, <<ex.call>>)
            ELSE Outcome(200, [status |-> <<"healthy">>,
                               database |-> <<"connected">>,
                               timestamp |-> Isoformat(t)], tr, <<ex.call>>)

\* health_check(): the connection check and the probe are both inside the
\* try block; t is datetime.now()
health_check(sb, keys, tr, raised, t) ==
    IF ~check_supabase_connection(sb)
    THEN Outcome(200, [status |-> <<"unhealthy">>,
                       database |-> <<"disconnected">>,
                       error |-> <<"500: ">> \o ConnectionDetail,
                       timestamp |-> Isoformat(t)], tr, <<>>)
    ELSE LET ex == ExecSelectIds(keys, <<Filter("limit", "", <<1>>)>>, raised)
         IN IF ex.raised
            THEN Outcome(200, [status |-> <<"unhealthy">>,
                               database |-> <<"disconnected">>,
                               error |-> DbError,
                               timestamp |-> Isoformat(t)], tr, <<ex.call>>)
            ELSE Outcome(200, [status |-> <<"healthy">>,
                               database |-> <<"connected">>,
                               timestamp |-> Isoformat(t)], tr, <<ex.call>>)

\* FirstInLocale without the test of language_code: the first translation of
\* the item, whatever its locale
FirstInLocale_AnyLocale(ts, locale) ==
    IF ts = <<>> THEN <<>> ELSE <<ts[1].value>>

\* the inner loop of get_localizations over item["translations"]: the value
\* of the first translation in the locale (the loop breaks there), <<>> if
\* the list is empty or has none
FirstInLocale(ts, locale) ==
    LET S == {j \in 1..Len(ts) : ts[j].language_code = locale}
    IN IF S = {} THEN <<>> ELSE <<ts[Min(S)].value>>

\* the loop of get_localizations over result.data, from the i-th item on:
\* localizations[item["key"]] is assigned the value found in the item, over
\* whatever an earlier item assigned to the same key
RECURSIVE LocalizationsLoop(_, _, _, _)
LocalizationsLoop(localizations, data, locale, i) ==
    IF i > Len(data) THEN localizations
    ELSE LET item == data[i]
             first == FirstInLocale(item.translations, locale)
         IN LocalizationsLoop(
                IF first # <<>> THEN (item.key :> first[1]) @@ localizations
                ELSE localizations,
                data, locale, i + 1)

\* the try and except blocks of get_localizations, given what execute() did
get_localizations_try(tr, project_id, locale, ex) ==
    Outcome(200,
            [project_id |-> project_id,
             locale |-> locale,
             localizations |->
                 IF ex.raised
                 THEN (<<"error">> :>
                         (<<"Failed to load localizations: ">> \o DbError))
                 ELSE LocalizationsLoop(<<>>, ex.data, locale, 1)],
            tr, <<ex.call>>)

\* get_localizations with a failed query answered like the other handlers
get_localizations_Raises(sb, keys, tr, project_id, locale, raised) ==
    IF ~check_supabase_connection(sb)
    THEN Outcome(500, [detail |-> ConnectionDetail], tr, <<>>)
    ELSE LET ex == ExecSelectLocalizations(keys, tr,
                       <<Filter("eq", "translations.language_code", locale)>>,
                       raised)
         IN IF ex.raised
            THEN Outcome(500,
                         [detail |-> <<"Failed to load localizations: ">>
                                        \o DbError], tr, <<ex.call>>)
            ELSE Outcome(200,
                         [project_id |-> project_id,
                          locale |-> locale,
                          localizations |->
                              LocalizationsLoop(<<>>, ex.data, locale, 1)],
                         tr, <<ex.call>>)

\* get_localizations(project_id, locale): the connection check is outside
\* the try block, the query and the loop are inside
get_localizations(sb, keys, tr, project_id, locale, raised) ==
    IF ~check_supabase_connection(sb)
    THEN Outcome(500, [detail |-> ConnectionDetail], tr, <<>>)
    ELSE get_localizations_try(tr, project_id, locale,
             ExecSelectLocalizations(keys, tr,
                 <<Filter("eq", "translations.language_code", locale)>>,
                 raised))

ShapeError == <<"validation error for TranslationKey">>

\* what the try block of get_translation_key ends with
get_translation_key_try(keys, tr, key_id, raised) ==
    LET ex == ExecSelectKeys(keys, tr, <<Filter("eq", "id", key_id)>>, raised)
    IN IF ex.raised
       THEN [exc |-> "Exception", status |-> 0, detail |-> DbError,
             value |-> <<>>, ex |-> ex]
       ELSE IF ex.data = <<>>
       THEN [exc |-> "HTTPException", status |-> 404,
             detail |-> <<"Translation key with ID ">> \o key_id
                           \o <<" not found">>,
             value |-> <<>>, ex |-> ex]
       ELSE IF ~FormatOk(ex.data[1])
       THEN [exc |-> "Exception", status |-> 0, detail |-> ShapeError,
             value |-> <<>>, ex |-> ex]
       ELSE [exc |-> "none", status |-> 200, detail |-> <<>>,
             value |-> <<format_translation_key_response(ex.data[1])>>,
             ex |-> ex]

\* the except clauses of get_translation_key without "except HTTPException:
\* raise"
get_translation_key_except_NoReraise(r) ==
    [status |-> 500,
     detail |-> <<"Failed to retrieve translation key: ">> \o r.detail]

\* the except clauses of get_translation_key
get_translation_key_except(r) ==
    IF r.exc = "HTTPException" THEN [status |-> r.status, detail |-> r.detail]
    ELSE [status |-> 500,
          detail |-> <<"Failed to retrieve translation key: ">> \o r.detail]

get_translation_key(sb, keys, tr, key_id, raised) ==
    IF ~check_supabase_connection(sb)
    THEN Outcome(500, [detail |-> ConnectionDetail], tr, <<>>)
    ELSE LET r == get_translation_key_try(keys, tr, key_id, raised)
         IN IF r.exc = "none"
            THEN Outcome(200, r.value[1], tr, <<r.ex.call>>)
            ELSE LET e == get_translation_key_except(r)
                 IN Outcome(e.status, [detail |-> e.detail], tr, <<r.ex.call>>)

\* Query(100, ge=1, le=1000) and Query(0, ge=0)
limit_default == 100
limit_ge == 1
limit_le == 1000
offset_default == 0
offset_ge == 0

QueryValid(query) ==
    /\ IsPresent(query.limit) =>
          The(query.limit) >= limit_ge /\ The(query.limit) <= limit_le
    /\ IsPresent(query.offset) => The(query.offset) >= offset_ge

\* the parameters the handler receives: an absent search or category is None
QueryParams(query) ==
    [search |-> IF IsPresent(query.search) THEN The(query.search) ELSE NoneV,
     category |-> IF IsPresent(query.category) THEN The(query.category)
                  ELSE NoneV,
     limit |-> IF IsPresent(query.limit) THEN The(query.limit)
               ELSE limit_default,
     offset |-> IF IsPresent(query.offset) THEN The(query.offset)
                ELSE offset_default]

\* ListFilters with the range ending at offset + limit
ListFilters_RangeOffByOne(search, category, limit, offset) ==
    (IF Truthy(search)
     THEN <<Filter("ilike", "key", <<"%">> \o search \o <<"%">>)>>
     ELSE <<>>)
    \o (IF Truthy(category) THEN <<Filter("eq", "category", category)>>
        ELSE <<>>)
    \o <<Filter("range", "", <<offset, offset + limit>>)>>

\* the query get_translation_keys builds
ListFilters(search, category, limit, offset) ==
    (IF Truthy(search)
     THEN <<Filter("ilike", "key", <<"%">> \o search \o <<"%">>)>>
     ELSE <<>>)
    \o (IF Truthy(category) THEN <<Filter("eq", "category", category)>>
        ELSE <<>>)
    \o <<Filter("range", "", <<offset, offset + limit - 1>>)>>

\* FormatAll with the items that fail left out of the list
FormatAll_SkipFailed(data) ==
    LET good == {i \in 1..Len(data) : FormatOk(data[i])}
        kept == SubSeqAt(data, good, 1)
    IN [ok |-> TRUE,
        items |-> [i \in 1..Len(kept) |->
                      format_translation_key_response(kept[i])]]

\* the list comprehension over result.data: every item formatted, or the
\* exception of the first one that fails
FormatAll(data) ==
    IF \A i \in 1..Len(data) : FormatOk(data[i])
    THEN [ok |-> TRUE,
          items |-> [i \in 1..Len(data) |->
                        format_translation_key_response(data[i])]]
    ELSE [ok |-> FALSE, items |-> <<>>]

get_translation_keys(sb, keys, tr, q, raised) ==
    IF ~check_supabase_connection(sb)
    THEN Outcome(500, [detail |-> ConnectionDetail], tr, <<>>)
    ELSE LET ex == ExecSelectKeys(keys, tr,
                       ListFilters(q.search, q.category, q.limit, q.offset),
                       raised)
             formatted_items == FormatAll(ex.data)
         IN IF ex.raised
            THEN Outcome(500,
                         [detail |-> <<"An unexpected error occurred: ">>
                                        \o DbError], tr, <<ex.call>>)
            ELSE IF ~formatted_items.ok
            THEN Outcome(500,
                         [detail |-> <<"An unexpected error occurred: ">>
                                        \o ShapeError], tr, <<ex.call>>)
            ELSE Outcome(200,
                         [items |-> formatted_items.items,
                          total |-> Len(formatted_items.items)],
                         tr, <<ex.call>>)

\* update_translation_try with the .eq("id", translation_id) step left out
\* of the update: every row gets the payload
update_translation_try_NoFilter(tr, translation_id, update_data, raised, t1, t2) ==
    LET ex == ExecUpdate(tr, translation_id,
                         [value |-> update_data.value,
                          updated_by |-> update_data.updated_by,
                          updated_at |-> Isoformat(t1)], raised)
        all == [i \in 1..Len(tr) |->
                   [tr[i] EXCEPT !.value = update_data.value,
                                 !.updated_by = update_data.updated_by,
                                 !.updated_at = Isoformat(t1)]]
        exAll == [ex EXCEPT !.tbl = IF raised THEN tr ELSE all]
    IN IF ex.raised
       THEN [exc |-> "Exception", status |-> 0, detail |-> DbError,
             ex |-> exAll]
       ELSE IF ex.data = <<>>
       THEN [exc |-> "HTTPException", status |-> 404,
             detail |-> <<"Translation with ID ">> \o translation_id
                           \o <<" not found">>, ex |-> exAll]
       ELSE [exc |-> "none", status |-> 200, detail |-> <<>>, ex |-> exAll]

\* what the try block of update_translation ends with: a return value or a
\* raised exception
update_translation_try(tr, translation_id, update_data, raised, t1, t2) ==
    LET ex == ExecUpdate(tr, translation_id,
                         [value |-> update_data.value,
                          updated_by |-> update_data.updated_by,
                          updated_at |-> Isoformat(t1)], raised)
    IN IF ex.raised
       THEN [exc |-> "Exception", status |-> 0, detail |-> DbError, ex |-> ex]
       ELSE IF ex.data = <<>>
       THEN [exc |-> "HTTPException", status |-> 404,
             detail |-> <<"Translation with ID ">> \o translation_id
                           \o <<" not found">>, ex |-> ex]
       ELSE [exc |-> "none", status |-> 200, detail |-> <<>>, ex |-> ex]

\* the except clauses of update_translation without "except HTTPException:
\* raise"
update_translation_except_NoReraise(r) ==
    [status |-> 500,
     detail |-> <<"Failed to update translation: ">> \o r.detail]

\* the except clauses of update_translation: an HTTPException is re-raised
\* as it is, any other exception becomes a 500
update_translation_except(r) ==
    IF r.exc = "HTTPException" THEN [status |-> r.status, detail |-> r.detail]
    ELSE [status |-> 500,
          detail |-> <<"Failed to update translation: ">> \o r.detail]

update_translation(sb, tr, translation_id, update_data, raised, t1, t2) ==
    IF ~check_supabase_connection(sb)
    THEN Outcome(500, [detail |-> ConnectionDetail], tr, <<>>)
    ELSE LET r == update_translation_try(tr, translation_id, update_data,
                                         raised, t1, t2)
         IN IF r.exc = "none"
            THEN Outcome(200,
                         [success |-> TRUE,
                          message |-> <<"Translation updated successfully">>,
                          translation_id |-> translation_id,
                          updated_by |-> update_data.updated_by,
                          timestamp |-> Isoformat(t2)],
                         r.ex.tbl, <<r.ex.call>>)
            ELSE LET e == update_translation_except(r)
                 IN Outcome(e.status, [detail |-> e.detail], r.ex.tbl,
                            <<r.ex.call>>)

\* BulkStep with the except branch not counting the failure
BulkStep_FailureNotCounted(acc, translation_id, new_value, updated_by, raised, t) ==
    LET ex == ExecUpdate(acc.tbl, translation_id,
                         [value |-> new_value, updated_by |-> updated_by,
                          updated_at |-> Isoformat(t)], raised)
        entry == IF ex.raised THEN [success |-> FALSE, error |-> DbError]
                 ELSE IF ex.data # <<>>
                 THEN [success |-> TRUE, value |-> new_value]
                 ELSE [success |-> FALSE,
                       error |-> <<"Translation not found">>]
    IN [results |-> (translation_id :> entry) @@ acc.results,
        successful_updates |->
            acc.successful_updates + (IF entry.success THEN 1 ELSE 0),
        failed_updates |->
            acc.failed_updates + (IF entry.success \/ ex.raised THEN 0 ELSE 1),
        tbl |-> ex.tbl,
        calls |-> Append(acc.calls, ex.call)]

\* BulkStep with an update that matched no row reported as a success
BulkStep_NotFoundIsSuccess(acc, translation_id, new_value, updated_by, raised, t) ==
    LET ex == ExecUpdate(acc.tbl, translation_id,
                         [value |-> new_value, updated_by |-> updated_by,
                          updated_at |-> Isoformat(t)], raised)
        entry == IF ex.raised THEN [success |-> FALSE, error |-> DbError]
                 ELSE [success |-> TRUE, value |-> new_value]
    IN [results |-> (translation_id :> entry) @@ acc.results,
        successful_updates |->
            acc.successful_updates + (IF entry.success THEN 1 ELSE 0),
        failed_updates |->
            acc.failed_updates + (IF entry.success THEN 0 ELSE 1),
        tbl |-> ex.tbl,
        calls |-> Append(acc.calls, ex.call)]

\* one iteration of the loop of bulk_update_translations: the update of one
\* (translation_id, new_value) pair at time t, and its entry in results
BulkStep(acc, translation_id, new_value, updated_by, raised, t) ==
    LET ex == ExecUpdate(acc.tbl, translation_id,
                         [value |-> new_value, updated_by |-> updated_by,
                          updated_at |-> Isoformat(t)], raised)
        entry == IF ex.raised THEN [success |-> FALSE, error |-> DbError]
                 ELSE IF ex.data # <<>>
                 THEN [success |-> TRUE, value |-> new_value]
                 ELSE [success |-> FALSE,
                       error |-> <<"Translation not found">>]
    IN [results |-> (translation_id :> entry) @@ acc.results,
        successful_updates |->
            acc.successful_updates + (IF entry.success THEN 1 ELSE 0),
        failed_updates |->
            acc.failed_updates + (IF entry.success THEN 0 ELSE 1),
        tbl |-> ex.tbl,
        calls |-> Append(acc.calls, ex.call)]

\* BulkLoop with the loop left at the first execute() that raises
RECURSIVE BulkLoop_AbortOnFailure(_, _, _, _, _, _)
BulkLoop_AbortOnFailure(acc, updates, updated_by, raisedAt, times, i) ==
    IF i > Len(updates) THEN acc
    ELSE LET next == BulkStep(acc, updates[i][1], updates[i][2], updated_by,
                              i \in raisedAt, times[i])
         IN IF i \in raisedAt THEN next
            ELSE BulkLoop_AbortOnFailure(next, updates, updated_by, raisedAt,
                                         times, i + 1)

\* the loop over bulk_update.updates.items(), from the i-th pair on
RECURSIVE BulkLoop(_, _, _, _, _, _)
BulkLoop(acc, updates, updated_by, raisedAt, times, i) ==
    IF i > Len(updates) THEN acc
    ELSE BulkLoop(BulkStep(acc, updates[i][1], updates[i][2], updated_by,
                           i \in raisedAt, times[i]),
                  updates, updated_by, raisedAt, times, i + 1)

\* the dict bulk_update_translations returns after the loop, at time t
BulkResponse(bulk_update, acc, t) ==
    [success |-> TRUE,
     message |-> <<"Bulk update completed">>,
     summary |-> [total_attempted |-> Len(bulk_update.updates),
                  successful_updates |-> acc.successful_updates,
                  failed_updates |-> acc.failed_updates],
     results |-> acc.results,
     updated_by |-> bulk_update.updated_by,
     timestamp |-> Isoformat(t)]

\* raisedAt: the iterations whose execute() raises; times[i]: datetime.now()
\* in iteration i, times[n+1]: datetime.now() of the response
bulk_update_translations(sb, tr, bulk_update, raisedAt, times) ==
    IF ~check_supabase_connection(sb)
    THEN Outcome(500, [detail |-> ConnectionDetail], tr, <<>>)
    ELSE IF bulk_update.updates = <<>>
    THEN Outcome(400, [detail |-> <<"No updates provided">>], tr, <<>>)
    ELSE LET n == Len(bulk_update.updates)
             acc == BulkLoop([results |-> <<>>, successful_updates |-> 0,
                              failed_updates |-> 0, tbl |-> tr,
                              calls |-> <<>>],
                             bulk_update.updates, bulk_update.updated_by,
                             raisedAt, times, 1)
         IN Outcome(200, BulkResponse(bulk_update, acc, times[n + 1]),
                    acc.tbl, acc.calls)

----------------------------------------------------------------------------
(* main.py: the routes, in the order the decorators register them *)

Lit(text) == [param |-> FALSE, text |-> text]
Param(name) == [param |-> TRUE, text |-> name]

Route(method, template, endpoint) ==
    [method |-> method, template |-> template, endpoint |-> endpoint]

Routes ==
    << Route("GET", <<>>, "root"),
       Route("GET", <<Lit(<<"health">>)>>, "health_check"),
       Route("GET", <<Lit(<<"localizations">>), Param(<<"project_id">>),
                      Param(<<"locale">>)>>, "get_localizations"),
       Route("GET", <<Lit(<<"translation-keys">>), Param(<<"key_id">>)>>,
             "get_translation_key"),
       Route("GET", <<Lit(<<"translation-keys">>)>>, "get_translation_keys"),
       Route("PUT", <<Lit(<<"translations">>), Param(<<"translation_id">>)>>,
             "update_translation"),
       Route("PUT", <<Lit(<<"translations">>), Lit(BULK)>>,
             "bulk_update_translations") >>

\* a path is the sequence of its segments; a {parameter} matches any
\* non-empty segment, a literal matches itself
Matches(route, method, path) ==
    /\ route.method = method
    /\ Len(route.template) = Len(path)
    /\ \A i \in 1..Len(path) :
          IF route.template[i].param THEN path[i] # <<>>
          ELSE path[i] = route.template[i].text

\* the router: the first route, in registration order, that matches
Dispatch(method, path) ==
    LET S == {i \in 1..Len(Routes) : Matches(Routes[i], method, path)}
    IN IF S = {} THEN "no_route" ELSE Routes[Min(S)].endpoint

ValidationError == [detail |-> <<"validation error">>]

\* what the framework runs for the route of update_translation: the body is
\* validated against TranslationUpdate (422 if it fails), then the handler
update_translation_endpoint(sb, tr, translation_id, body, raised, t1, t2) ==
    IF ~TranslationUpdateValid(body)
    THEN Outcome(422, ValidationError, tr, <<>>)
    ELSE update_translation(sb, tr, translation_id, TranslationUpdate(body),
                            raised, t1, t2)

\* what the framework runs for the route of get_translation_keys: the query
\* parameters are validated (422 if one is out of range), then the handler
get_translation_keys_endpoint(sb, keys, tr, query, raised) ==
    IF ~QueryValid(query)
    THEN Outcome(422, ValidationError, tr, <<>>)
    ELSE get_translation_keys(sb, keys, tr, QueryParams(query), raised)

\* what the framework runs for the route of bulk_update_translations
bulk_update_translations_endpoint(sb, tr, body, raisedAt, times) ==
    IF ~BulkTranslationUpdateValid(body)
    THEN Outcome(422, ValidationError, tr, <<>>)
    ELSE bulk_update_translations(sb, tr, BulkTranslationUpdate(body),
                                  raisedAt, times)

----------------------------------------------------------------------------
(* Requests *)

BulkPath == << <<"translations">>, BULK >>

NoQuery == [search |-> Absent, category |-> Absent, limit |-> Absent,
            offset |-> Absent]
NoBody == [value |-> Absent, updated_by |-> Absent, updates |-> Absent]

Request(method, path, query, body) ==
    [method |-> method, path |-> path, query |-> query, body |-> body]

\* via: "http" when the router chose the endpoint, "route" when the route's
\* endpoint is run on the request directly
Response(endpoint, via, o) ==
    [endpoint |-> endpoint, via |-> via, status |-> o.status, body |-> o.body]

NoResponse ==
    [endpoint |-> "none", via |-> "none", status |-> 0,
     body |-> [detail |-> <<>>]]

Vals == {V1, V2}
ProjectIds == {<<"p1">>}
Locales == {<<"en">>, <<"es">>, <<"fr">>}
KeyIds == {K1, K2, K3, KX}
Queries ==
    [search : {Absent, Some(<<>>), Some(<<"button">>)},
     category : {Absent, Some(<<>>), Some(<<"buttons">>)},
     limit : {Absent, Some(0), Some(1), Some(2), Some(1000), Some(1001)},
     offset : {Absent, Some(0 - 1), Some(0), Some(1)}]
PathIds == {T1, ZZ, BULK}
BulkKeys == {T1, T2, ZZ, BLANK, <<>>}

\* the dicts of at most MaxBatch entries: sequences of <<id, value>> pairs
\* with distinct ids
UpdateDicts ==
    {u \in UNION {[1..k -> BulkKeys \X Vals] : k \in 0..MaxBatch} :
        \A i, j \in 1..Len(u) : i # j => u[i][1] # u[j][1]}

SingleBodies ==
    [value : {Absent, Some(V1), Some(V2)}, updated_by : {Absent, Some(ALICE)},
     updates : {Absent}]
BulkBodies ==
    [value : {Absent}, updated_by : {Absent},
     updates : {Absent} \cup {Some(u) : u \in UpdateDicts}]

\* the successive values of datetime.now() within one request
Clocks(n) == {ts \in [1..n -> Times] : \A i \in 1..(n - 1) : ts[i] <= ts[i + 1]}

\* the instants of a bulk request of n pairs: one for the iterations of the
\* loop and a later or equal one for the response
BulkClocks(n) == {ts \in Clocks(n + 1) : \A i \in 1..n : ts[i] = ts[1]}

BodyLen(body) == IF IsPresent(body.updates) THEN Len(The(body.updates)) ELSE 0

Init ==
    /\ supabase \in {"client", "None"}
    /\ translation_keys = InitTranslationKeys
    /\ translations = InitTranslations
    /\ req = Request("NONE", <<>>, NoQuery, NoBody)
    /\ resp = NoResponse
    /\ calls = <<>>
    /\ running = <<>>

\* no request is being answered
Idle == req.method = "NONE"

Answer(r, endpoint, via, o) ==
    /\ req' = r
    /\ resp' = Response(endpoint, via, o)
    /\ calls' = o.calls
    /\ translations' = o.translations
    /\ UNCHANGED <<supabase, translation_keys, running>>

\* what the datastore and the clock do during an update: whether execute()
\* raises and the two values of datetime.now(); a body that fails validation
\* meets neither
UpdateEnvs(body) ==
    IF TranslationUpdateValid(body) THEN BOOLEAN \X Clocks(2)
    ELSE {<<FALSE, <<1, 1>>>>}

\* the same for a bulk update: the iterations whose execute() raises and the
\* values of datetime.now()
BulkEnvs(body) ==
    IF BulkTranslationUpdateValid(body)
    THEN (SUBSET (1..BodyLen(body))) \X BulkClocks(BodyLen(body))
    ELSE {<<{}, <<1>>>>}

\* PUT /translations/<seg> over HTTP: the router picks the endpoint
PutTranslations ==
    /\ Idle
    /\ \E seg \in PathIds, body \in SingleBodies \cup BulkBodies :
         LET path == << <<"translations">>, seg >>
             r == Request("PUT", path, NoQuery, body)
             endpoint == Dispatch("PUT", path)
         IN /\ body \notin SingleBodies => seg = BULK
            /\ \/ /\ endpoint = "update_translation"
                  /\ \E env \in UpdateEnvs(body) :
                        Answer(r, endpoint, "http",
                               update_translation_endpoint(supabase,
                                   translations, seg, body, env[1],
                                   env[2][1], env[2][2]))
               \/ /\ endpoint = "bulk_update_translations"
                  /\ \E env \in BulkEnvs(body) :
                        Answer(r, endpoint, "http",
                               bulk_update_translations_endpoint(supabase,
                                   translations, body, env[1], env[2]))

\* GET /
Root ==
    /\ Idle
    /\ Dispatch("GET", <<>>) = "root"
    /\ Answer(Request("GET", <<>>, NoQuery, NoBody), "root", "http",
              root(translations))

\* GET /health
Health ==
    /\ Idle
    /\ Dispatch("GET", << <<"health">> >>) = "health_check"
    /\ \E raised \in BOOLEAN, t \in Times :
         Answer(Request("GET", << <<"health">> >>, NoQuery, NoBody),
                "health_check", "http",
                health_check(supabase, translation_keys, translations,
                             raised, t))

\* GET /localizations/<project_id>/<locale>
GetLocalizations ==
    /\ Idle
    /\ \E project_id \in ProjectIds, locale \in Locales, raised \in BOOLEAN :
         LET path == << <<"localizations">>, project_id, locale >>
         IN /\ Dispatch("GET", path) = "get_localizations"
            /\ Answer(Request("GET", path, NoQuery, NoBody),
                      "get_localizations", "http",
                      get_localizations(supabase, translation_keys,
                                        translations, project_id, locale,
                                        raised))

\* GET /translation-keys/<key_id>
GetTranslationKey ==
    /\ Idle
    /\ \E key_id \in KeyIds, raised \in BOOLEAN :
         LET path == << <<"translation-keys">>, key_id >>
         IN /\ Dispatch("GET", path) = "get_translation_key"
            /\ Answer(Request("GET", path, NoQuery, NoBody),
                      "get_translation_key", "http",
                      get_translation_key(supabase, translation_keys,
                                          translations, key_id, raised))

\* GET /translation-keys?search=..&category=..&limit=..&offset=..
GetTranslationKeys ==
    /\ Idle
    /\ \E query \in Queries, raised \in BOOLEAN :
         LET path == << <<"translation-keys">> >>
         IN /\ Dispatch("GET", path) = "get_translation_keys"
            /\ Answer(Request("GET", path, query, NoBody),
                      "get_translation_keys", "http",
                      get_translation_keys_endpoint(supabase,
                          translation_keys, translations, query, raised))

\* the endpoint of the route PUT /translations/bulk, run on a request body
BulkUpdate ==
    /\ Idle
    /\ \E body \in BulkBodies :
       \E env \in BulkEnvs(body) :
         Answer(Request("PUT", BulkPath, NoQuery, body),
                "bulk_update_translations", "route",
                bulk_update_translations_endpoint(supabase, translations, body,
                                                  env[1], env[2]))

\* the response has been sent: nothing of the request is kept
EndRequest ==
    /\ ~Idle
    /\ req' = Request("NONE", <<>>, NoQuery, NoBody)
    /\ resp' = NoResponse
    /\ calls' = <<>>
    /\ UNCHANGED <<supabase, translation_keys, translations, running>>

Next ==
    \/ Root
    \/ Health
    \/ GetLocalizations
    \/ GetTranslationKey
    \/ GetTranslationKeys
    \/ PutTranslations
    \/ BulkUpdate
    \/ EndRequest

Spec == Init /\ [][Next]_vars

----------------------------------------------------------------------------
(* The read path over a given datastore answer.  The client is replaced by *)
(* one whose execute() returns the data it was given, as the tests do with *)
(* their mocked client, so that the handler's loop and the shaper meet     *)
(* every shape of answer and not only those the two tables above produce.  *)

SeqsUpTo(S, n) == UNION {[1..k -> S] : k \in 0..n}

\* execute() of the mocked client: data is returned as it is
Returned(table, filters, data) ==
    [raised |-> FALSE, data |-> data,
     call |-> Call(table, "select", Absent, filters, FALSE, data)]

\* answers to the query of get_localizations: records of a key and its
\* nested translations (language_code, value)
JoinedTranslations ==
    {[language_code |-> <<"en">>, value |-> V1],
     [language_code |-> <<"en">>, value |-> V2],
     [language_code |-> <<"es">>, value |-> V1]}
JoinedKeys == {<<"button", ".", "save">>, <<"button", ".", "cancel">>}
JoinedRecords ==
    [key : JoinedKeys,
     translations : SeqsUpTo(JoinedTranslations, MaxTranslations)]
JoinedResults == SeqsUpTo(JoinedRecords, MaxRecords)
MockLocales == {<<"en">>}

\* raw key records handed to format_translation_key_response: a field is
\* absent, None or a string
OptField(name, o) == IF IsPresent(o) THEN name :> The(o) ELSE <<>>
RawTranslationA ==
    [id |-> T1, language_code |-> <<"en">>, value |-> V1,
     updated_at |-> CREATED, updated_by |-> <<"system">>]
RawTranslationB ==
    [id |-> T2, language_code |-> <<"es">>, value |-> V2,
     updated_at |-> CREATED, updated_by |-> ALICE]
RawTranslationNoActor ==
    [id |-> T2, language_code |-> <<"es">>, value |-> V2,
     updated_at |-> CREATED]
RawTranslations == {RawTranslationA, RawTranslationB, RawTranslationNoActor}
RawShapes ==
    [id : {Absent, Some(K1)},
     category : {Absent, Some(NoneV), Some(<<>>), Some(<<"buttons">>)},
     description : {Absent, Some(NoneV), Some(<<"Save button text">>)},
     translations : {Absent} \cup
                    {Some(l) : l \in SeqsUpTo(RawTranslations, MaxTranslations)},
     updated_at : {Some(NoneV), Some(CREATED)}]
RawRecord(shape) ==
    OptField("id", shape.id) @@ ("key" :> <<"button", ".", "save">>)
    @@ OptField("category", shape.category)
    @@ OptField("description", shape.description)
    @@ OptField("translations", shape.translations)
    @@ ("created_at" :> CREATED) @@ OptField("updated_at", shape.updated_at)
RawRecords == {RawRecord(shape) : shape \in RawShapes}

\* GET /localizations/<project_id>/<locale> with the client mocked: the try
\* block of get_localizations over the given answer
GetLocalizationsMocked ==
    /\ Idle
    /\ \E project_id \in ProjectIds, locale \in MockLocales,
          data \in JoinedResults :
         LET path == << <<"localizations">>, project_id, locale >>
         IN /\ Dispatch("GET", path) = "get_localizations"
            /\ Answer(Request("GET", path, NoQuery, NoBody),
                      "get_localizations", "mock",
                      get_localizations_try(translations, project_id, locale,
                          Returned("translation_keys",
                              <<Filter("eq", "translations.language_code",
                                       locale)>>, data)))

\* format_translation_key_response(raw) called on one raw record: the body
\* holds whether it raised and, if it did not, the value it returned
FormatRaw ==
    /\ Idle
    /\ \E raw \in RawRecords :
         Answer(Request("CALL", <<>>, NoQuery, NoBody),
                "format_translation_key_response", "call",
                Outcome(0,
                        [raised |-> ~FormatOk(raw),
                         returned |-> IF FormatOk(raw)
                                      THEN <<format_translation_key_response(raw)>>
                                      ELSE <<>>],
                        translations,
                        <<Returned("translation_keys", <<>>, <<raw>>).call>>))

MockInit == Init /\ supabase = "client"

MockNext ==
    \/ GetLocalizationsMocked
    \/ FormatRaw
    \/ EndRequest

MockSpec == MockInit /\ [][MockNext]_vars

----------------------------------------------------------------------------
(* Update requests that run concurrently.  Each handler call has its own   *)
(* locals (main.py:265-267); the calls share the module-level client and   *)
(* the datastore behind it, which executes one operation at a time.  Here  *)
(* calls is the datastore's record of the write it applied last to each    *)
(* row.                                                                    *)

\* the ids of a bulk request, and those of a single update
ConcIds == {T1, T2}
ConcPathIds == {T1, T2, ZZ}

\* the value request p asks for in its i-th pair: no two requests ask for
\* the same value
ValueOf(p, i) == <<"v", ToString(p), ".", ToString(i)>>

\* the updates of a bulk request p: distinct ids, at most MaxBatch of them
ConcDicts(p) ==
    {[i \in 1..Len(ids) |-> <<ids[i], ValueOf(p, i)>>] :
        ids \in {u \in SeqsUpTo(ConcIds, MaxBatch) :
                    /\ u # <<>>
                    /\ \A i, j \in 1..Len(u) : i # j => u[i] # u[j]}}

\* the locals of a handler call when it starts: its arguments, results = {},
\* successful_updates = 0, failed_updates = 0, and nothing returned yet
Started(kind, updates, updated_by) ==
    [kind |-> kind, updates |-> updates, updated_by |-> updated_by,
     pc |-> 1, results |-> <<>>, successful_updates |-> 0,
     failed_updates |-> 0, response |-> <<>>]

\* the requests p may be: PUT /translations/<id> with {"value": v}, or a
\* bulk update with {"updates": {...}}
ConcRequests(p) ==
    {Started("single", << <<id, ValueOf(p, 1)>> >>,
             TranslationUpdate([value |-> Some(ValueOf(p, 1)),
                                updated_by |-> Absent,
                                updates |-> Absent]).updated_by) :
        id \in ConcPathIds}
    \cup
    {Started("bulk", u,
             BulkTranslationUpdate([value |-> Absent, updated_by |-> Absent,
                                    updates |-> Some(u)]).updated_by) :
        u \in ConcDicts(p)}

\* results and the two counters kept at module level: every handler call
\* sees what the other calls have accumulated
RECURSIVE MergedResults(_, _)
MergedResults(run, q) ==
    IF q > Len(run) THEN <<>>
    ELSE run[q].results @@ MergedResults(run, q + 1)
RECURSIVE SumOf(_, _, _)
SumOf(run, field, q) ==
    IF q > Len(run) THEN 0 ELSE run[q][field] + SumOf(run, field, q + 1)
Locals_ModuleLevel(run, p) ==
    [run[p] EXCEPT !.results = MergedResults(run, 1),
                   !.successful_updates = SumOf(run, "successful_updates", 1),
                   !.failed_updates = SumOf(run, "failed_updates", 1)]

\* the locals of handler call p: its own
Locals(run, p) == run[p]

\* the datastore's record after call c: an update that was applied replaces
\* the earlier write to the same id
LastApplied(log, c) ==
    IF c.raised \/ c.data = <<>> THEN log
    ELSE SubSeqAt(log, {i \in 1..Len(log) : log[i].filters # c.filters}, 1)
         \o <<c>>

\* datetime.now() while requests run concurrently: the interleavings are
\* explored at one instant of the clock
ConcTimes == {Min(Times)}

\* one iteration of the loop of bulk_update_translations in call p; after
\* the last pair the call returns its dict, which touches nothing but its
\* locals
BulkIterate(p) ==
    /\ running[p].kind = "bulk"
    /\ running[p].response = <<>>
    /\ running[p].pc <= Len(running[p].updates)
    /\ check_supabase_connection(supabase)
    /\ \E raised \in BOOLEAN, t \in ConcTimes :
         LET l == Locals(running, p)
             pair == l.updates[l.pc]
             next == BulkStep([results |-> l.results,
                               successful_updates |-> l.successful_updates,
                               failed_updates |-> l.failed_updates,
                               tbl |-> translations, calls |-> <<>>],
                              pair[1], pair[2], l.updated_by, raised, t)
             after == [l EXCEPT !.pc = @ + 1,
                                !.results = next.results,
                                !.successful_updates = next.successful_updates,
                                !.failed_updates = next.failed_updates]
         IN /\ running' =
                  [running EXCEPT ![p] =
                      IF after.pc <= Len(after.updates) THEN after
                      ELSE [after EXCEPT !.response =
                               <<[status |-> 200,
                                  body |-> BulkResponse(
                                               [updates |-> after.updates,
                                                updated_by |-> after.updated_by],
                                               after, t)]>>]]
            /\ translations' = next.tbl
            /\ calls' = LastApplied(calls, next.calls[1])
            /\ UNCHANGED <<supabase, translation_keys, req, resp>>

\* update_translation in call p: its one datastore operation and its answer
SingleRun(p) ==
    /\ running[p].kind = "single"
    /\ running[p].response = <<>>
    /\ \E raised \in BOOLEAN, t \in ConcTimes :
         LET l == Locals(running, p)
             o == update_translation(supabase, translations, l.updates[1][1],
                                     [value |-> l.updates[1][2],
                                      updated_by |-> l.updated_by],
                                     raised, t, t)
         IN /\ running' =
                  [running EXCEPT ![p] =
                      [l EXCEPT !.pc = @ + 1,
                                !.response = <<[status |-> o.status,
                                                body |-> o.body]>>]]
            /\ translations' = o.translations
            /\ calls' = LastApplied(calls, o.calls[1])
            /\ UNCHANGED <<supabase, translation_keys, req, resp>>

ConcInit ==
    /\ supabase = "client"
    /\ translation_keys = InitTranslationKeys
    /\ translations = InitTranslations
    /\ req = Request("NONE", <<>>, NoQuery, NoBody)
    /\ resp = NoResponse
    /\ calls = <<>>
    /\ running \in {run \in [1..MaxRequests ->
                                UNION {ConcRequests(p) : p \in 1..MaxRequests}] :
                       \A p \in 1..MaxRequests : run[p] \in ConcRequests(p)}

ConcNext ==
    \E p \in 1..MaxRequests :
        \/ BulkIterate(p)
        \/ SingleRun(p)

ConcSpec == ConcInit /\ [][ConcNext]_vars

----------------------------------------------------------------------------
(* Properties *)

\* the bulk-update endpoint answered a request whose body passed validation,
\* with the datastore client present
BulkRan ==
    /\ resp.endpoint = "bulk_update_translations"
    /\ supabase = "client"
    /\ IsPresent(req.body.updates)
    /\ The(req.body.updates) # <<>>
    /\ \A i \in 1..Len(The(req.body.updates)) :
          \E j \in 1..Len(The(req.body.updates)[i][1]) :
              The(req.body.updates)[i][1][j] # " "

SubmittedIds == {The(req.body.updates)[i][1] : i \in 1..BodyLen(req.body)}

\* C1: a bulk update of n distinct ids is answered 200 with exactly one result
\* entry per submitted id, total_attempted = n, successful_updates +
\* failed_updates = n, and successful_updates the number of entries whose
\* success is true, whatever the outcome of each row
C1_BulkCounts ==
    BulkRan =>
        LET n == BodyLen(req.body)
            results == resp.body.results
            summary == resp.body.summary
        IN /\ resp.status = 200
           /\ DOMAIN results = SubmittedIds
           /\ Cardinality(DOMAIN results) = n
           /\ summary.total_attempted = n
           /\ summary.successful_updates + summary.failed_updates = n
           /\ summary.successful_updates =
                 Cardinality({id \in DOMAIN results : results[id].success})

\* a batch of at least two ids in which one update raised and one succeeded
C1_Witness ==
    /\ BulkRan
    /\ BodyLen(req.body) >= 2
    /\ \E i \in 1..Len(calls) : calls[i].raised
    /\ resp.body.summary.successful_updates >= 1

\* C2: a PUT of a well-formed bulk body to /translations/bulk is answered by
\* the bulk-update handler with 200, never by the single-update handler
C2_BulkRouteDispatched ==
    ( /\ resp.via = "http"
      /\ req.method = "PUT"
      /\ req.path = BulkPath
      /\ supabase = "client"
      /\ ~IsPresent(req.body.value)
      /\ IsPresent(req.body.updates)
      /\ The(req.body.updates) # <<>>
      /\ \A i \in 1..Len(The(req.body.updates)) :
            The(req.body.updates)[i][1] \in {T1, T2, ZZ} )
    => /\ resp.endpoint = "bulk_update_translations"
       /\ resp.status = 200

\* C3: every pair of the batch is sent to the datastore exactly once, in
\* order, whatever happened to the pairs before it; afterwards the rows whose
\* entry says success hold the new value and updated_by, and every other row
\* is as it was before the request
C3_Step ==
    (Idle /\ BulkRan') =>
        LET u == The(req'.body.updates)
            results == resp'.body.results
            newValue(id) == u[CHOOSE i \in 1..Len(u) : u[i][1] = id][2]
        IN /\ Len(calls') = Len(u)
           /\ \A i \in 1..Len(u) :
                 /\ calls'[i].table = "translations"
                 /\ calls'[i].op = "update"
                 /\ calls'[i].filters = <<Filter("eq", "id", u[i][1])>>
                 /\ The(calls'[i].payload).value = u[i][2]
           /\ Len(translations') = Len(translations)
           /\ \A k \in 1..Len(translations) :
                 LET id == translations[k].id
                 IN IF id \in DOMAIN results /\ results[id].success
                    THEN /\ translations'[k].value = newValue(id)
                         /\ translations'[k].updated_by = resp'.body.updated_by
                    ELSE translations'[k] = translations[k]
C4_BulkEntryPerOutcome ==
    BulkRan =>
        LET u == The(req.body.updates)
        IN /\ Len(calls) = Len(u)
           /\ \A i \in 1..Len(u) :
                 LET entry == resp.body.results[u[i][1]]
                 IN /\ (entry = [success |-> TRUE, value |-> u[i][2]])
                        <=> (~calls[i].raised /\ calls[i].data # <<>>)
                    /\ (entry = [success |-> FALSE,
                                 error |-> <<"Translation not found">>])
                        <=> (~calls[i].raised /\ calls[i].data = <<>>)
                    /\ (entry = [success |-> FALSE, error |-> DbError])
                        <=> calls[i].raised

\* a batch with one matched row and one id that matches no row
C4_Witness ==
    /\ BulkRan
    /\ \E i, j \in 1..Len(calls) :
          /\ ~calls[i].raised /\ calls[i].data # <<>>
          /\ ~calls[j].raised /\ calls[j].data = <<>>

\* the updates mapping is missing, empty, or has an empty or whitespace-only
\* key
BadUpdates(body) ==
    \/ ~IsPresent(body.updates)
    \/ The(body.updates) = <<>>
    \/ \E i \in 1..Len(The(body.updates)) :
          \A j \in 1..Len(The(body.updates)[i][1]) :
              The(body.updates)[i][1][j] = " "

C6_GetByIdStatus ==
    (resp.endpoint = "get_translation_key" /\ supabase = "client") =>
        /\ Len(calls) = 1
        /\ calls[1].filters = <<Filter("eq", "id", req.path[2])>>
        /\ IF calls[1].raised THEN resp.status = 500
           ELSE IF calls[1].data = <<>> THEN resp.status = 404
           ELSE IF ~FormatOk(calls[1].data[1]) THEN resp.status = 500
           ELSE /\ resp.status = 200
                /\ resp.body.id = req.path[2]
                /\ resp.body.id = calls[1].data[1].id
                /\ resp.body.key = calls[1].data[1].key

\* a key that is present was returned with its id
C6_Witness ==
    /\ resp.endpoint = "get_translation_key"
    /\ resp.status = 200
    /\ req.path[2] = K1
    /\ resp.body.id = K1

\* C7: a single update answers 404 exactly when the update matched no row,
\* 200 with success, the path's id and the request's actor (default "user")
\* exactly when it matched a row, and 500 when the datastore raised
C7_UpdateStatus ==
    ( /\ resp.endpoint = "update_translation"
      /\ supabase = "client"
      /\ IsPresent(req.body.value) )
    => /\ Len(calls) = 1
       /\ (resp.status = 404) <=> (~calls[1].raised /\ calls[1].data = <<>>)
       /\ (resp.status = 200) <=> (~calls[1].raised /\ calls[1].data # <<>>)
       /\ (resp.status = 500) <=> calls[1].raised
       /\ resp.status = 200 =>
             /\ resp.body.success = TRUE
             /\ resp.body.translation_id = req.path[2]
             /\ resp.body.updated_by =
                   (IF IsPresent(req.body.updated_by)
                    THEN The(req.body.updated_by) ELSE <<"user">>)

\* an update of an id no row has was answered 404
C7_Witness ==
    /\ resp.endpoint = "update_translation"
    /\ Len(calls) = 1
    /\ ~calls[1].raised
    /\ calls[1].data = <<>>
    /\ resp.status = 404

\* the list request was accepted: limit in [1, 1000] and offset >= 0, with
\* the defaults 100 and 0
ListAccepted ==
    /\ resp.endpoint = "get_translation_keys"
    /\ supabase = "client"
    /\ IsPresent(req.query.limit) =>
          The(req.query.limit) >= 1 /\ The(req.query.limit) <= 1000
    /\ IsPresent(req.query.offset) => The(req.query.offset) >= 0

\* C8: the query of an accepted list request has the row range
\* [offset, offset + limit - 1], an ilike step on key with the pattern
\* %search% if and only if search is non-empty, and an eq step on category
\* if and only if category is non-empty
C8_ListQuery ==
    ListAccepted =>
        LET q == req.query
            limit == IF IsPresent(q.limit) THEN The(q.limit) ELSE 100
            offset == IF IsPresent(q.offset) THEN The(q.offset) ELSE 0
            hasSearch == IsPresent(q.search) /\ The(q.search) # <<>>
            hasCategory == IsPresent(q.category) /\ The(q.category) # <<>>
            F == IF Len(calls) = 1 THEN calls[1].filters ELSE <<>>
            steps(op) == {i \in 1..Len(F) : F[i].op = op}
        IN /\ Len(calls) = 1
           /\ calls[1].table = "translation_keys"
           /\ \E i \in 1..Len(F) :
                 /\ steps("range") = {i}
                 /\ F[i].arg = <<offset, offset + limit - 1>>
           /\ IF hasSearch
              THEN \E i \in 1..Len(F) :
                      /\ steps("ilike") = {i}
                      /\ F[i].column = "key"
                      /\ F[i].arg = <<"%">> \o The(q.search) \o <<"%">>
              ELSE steps("ilike") = {}
           /\ IF hasCategory
              THEN \E i \in 1..Len(F) :
                      /\ steps("eq") = {i}
                      /\ F[i].column = "category"
                      /\ F[i].arg = The(q.category)
              ELSE steps("eq") = {}

\* search=button, limit=2, offset=1 was sent as %button% and the range [1, 2]
C8_Witness ==
    /\ ListAccepted
    /\ req.query.search = Some(<<"button">>)
    /\ req.query.limit = Some(2)
    /\ req.query.offset = Some(1)
    /\ Len(calls) = 1
    /\ Len(calls[1].filters) = 2
    /\ calls[1].filters[1].arg = <<"%", "button", "%">>
    /\ calls[1].filters[2].arg = <<1, 2>>

\* C9: an accepted list request is answered 200 with one shaped item per
\* returned record, in the same order, and total their number; when the query
\* raises or one record fails shaping it is answered 500 without any item
C9_ListAllOrNothing ==
    ListAccepted =>
        /\ Len(calls) = 1
        /\ IF ~calls[1].raised
              /\ \A i \in 1..Len(calls[1].data) : FormatOk(calls[1].data[i])
           THEN /\ resp.status = 200
                /\ Len(resp.body.items) = Len(calls[1].data)
                /\ resp.body.total = Len(calls[1].data)
                /\ \A i \in 1..Len(calls[1].data) :
                      /\ resp.body.items[i].id = calls[1].data[i].id
                      /\ resp.body.items[i].key = calls[1].data[i].key
           ELSE /\ resp.status = 500
                /\ "items" \notin DOMAIN resp.body

\* a page with a record that shapes and a record that does not was answered
\* 500
C9_Witness ==
    /\ ListAccepted
    /\ Len(calls) = 1
    /\ ~calls[1].raised
    /\ \E i, j \in 1..Len(calls[1].data) :
          FormatOk(calls[1].data[i]) /\ ~FormatOk(calls[1].data[j])
    /\ resp.status = 500

\* C10: when the query of a localization lookup fails the answer is still a
\* 200 with the requested project_id and locale, and localizations is a
\* mapping whose only key is error
C10_LocalizationsFailSoft ==
    ( /\ resp.endpoint = "get_localizations"
      /\ Len(calls) >= 1
      /\ \E i \in 1..Len(calls) : calls[i].raised )
    => /\ resp.status = 200
       /\ resp.body.project_id = req.path[2]
       /\ resp.body.locale = req.path[3]
       /\ DOMAIN resp.body.localizations = {<<"error">>}

\* the query of a localization lookup raised
C10_Witness ==
    /\ resp.endpoint = "get_localizations"
    /\ Len(calls) = 1
    /\ calls[1].raised
    /\ resp.status = 200

\* the try block of get_localizations ran to its return over the answer
\* calls[1].data
LookupSucceeded ==
    /\ resp.endpoint = "get_localizations"
    /\ resp.status = 200
    /\ Len(calls) = 1
    /\ ~calls[1].raised

\* the record has a translation in the locale
HasLocale(item, locale) ==
    \E j \in 1..Len(item.translations) :
        item.translations[j].language_code = locale

\* C11: after a successful lookup the keys of localizations are exactly the
\* keys of the returned records that have a translation in the requested
\* locale, each value is the value of such a translation of such a record,
\* and no value is null; a record whose list is empty or holds only other
\* locales gives no entry
C11_LocalizationsExact ==
    LookupSucceeded =>
        LET data == calls[1].data
            locale == req.path[3]
            loc == resp.body.localizations
        IN /\ DOMAIN loc =
                 {data[i].key :
                     i \in {i \in 1..Len(data) : HasLocale(data[i], locale)}}
           /\ \A k \in DOMAIN loc :
                 /\ loc[k] # NoneV
                 /\ \E i \in 1..Len(data) :
                       /\ data[i].key = k
                       /\ \E j \in 1..Len(data[i].translations) :
                             /\ data[i].translations[j].language_code = locale
                             /\ data[i].translations[j].value = loc[k]

\* an answer with a record in the locale and a record of another key that
\* has only another locale gave exactly one entry
C11_Witness ==
    /\ LookupSucceeded
    /\ Len(calls[1].data) = 2
    /\ calls[1].data[1].key # calls[1].data[2].key
    /\ HasLocale(calls[1].data[1], req.path[3])
    /\ calls[1].data[2].translations # <<>>
    /\ ~HasLocale(calls[1].data[2], req.path[3])
    /\ DOMAIN resp.body.localizations = {calls[1].data[1].key}
    /\ resp.body.localizations[calls[1].data[1].key] =
          calls[1].data[1].translations[1].value

\* C12: the health check always answers 200; the body says healthy exactly
\* when the client is present and the probe query did not raise, and
\* otherwise unhealthy with a non-empty error description and a timestamp
C12_HealthNeverRaises ==
    resp.endpoint = "health_check" =>
        LET probed == Len(calls) = 1 /\ ~calls[1].raised
        IN /\ resp.status = 200
           /\ "timestamp" \in DOMAIN resp.body
           /\ resp.body.status \in {<<"healthy">>, <<"unhealthy">>}
           /\ (resp.body.status = <<"healthy">>)
                 <=> (check_supabase_connection(supabase) /\ probed)
           /\ resp.body.status = <<"unhealthy">> =>
                 /\ "error" \in DOMAIN resp.body
                 /\ resp.body.error \notin {<<>>, NoneV}

\* the health check with the client missing: 200, unhealthy, no probe sent
C12_Witness ==
    /\ resp.endpoint = "health_check"
    /\ supabase = "None"
    /\ calls = <<>>
    /\ resp.status = 200
    /\ resp.body.status = <<"unhealthy">>
    /\ resp.body.error = <<"500: ">> \o ConnectionDetail

\* format_translation_key_response was called, on the raw record ShapedRaw
ShaperCalled ==
    /\ resp.endpoint = "format_translation_key_response"
    /\ Len(calls) = 1
    /\ Len(calls[1].data) = 1
ShapedRaw == calls[1].data[1]

\* the raw translations are mappings of five strings
TranslationsWellFormed(raw) ==
    "translations" \in DOMAIN raw =>
        \A i \in 1..Len(raw.translations) :
            \A f \in TranslationFields : IsStr(raw.translations[i], f)

\* the raw category is absent or null
CategoryMissing(raw) ==
    IF "category" \in DOMAIN raw THEN raw.category = NoneV ELSE TRUE

\* C13: when the category of the raw record is absent or null, and the rest
\* of the record is as the shaper needs it, shaping does not fail and the
\* shaped category is the empty string
C13_CategoryDefaulted ==
    ( /\ ShaperCalled
      /\ CategoryMissing(ShapedRaw)
      /\ \A f \in {"id", "key", "created_at", "updated_at"} :
            IsStr(ShapedRaw, f)
      /\ TranslationsWellFormed(ShapedRaw) )
    => /\ ~resp.body.raised
       /\ The(resp.body.returned).category = <<>>

\* a raw record with all the fields of the contract: id, key, created_at and
\* updated_at strings, category and description strings or null, and a list
\* of translations
WellFormed(raw) ==
    /\ DOMAIN raw = {"id", "key", "category", "description", "translations",
                     "created_at", "updated_at"}
    /\ \A f \in {"id", "key", "created_at", "updated_at"} : IsStr(raw, f)
    /\ TranslationsWellFormed(raw)

\* C14: shaping a well-formed raw record does not fail and keeps id, key,
\* description, created_at and updated_at, keeps category unless it is null
\* (then it is ""), and keeps the translations in number, order and every
\* field
C14_ShapePreserves ==
    (ShaperCalled /\ WellFormed(ShapedRaw)) =>
        /\ ~resp.body.raised
        /\ LET raw == ShapedRaw
               out == The(resp.body.returned)
           IN /\ out.id = raw.id
              /\ out.key = raw.key
              /\ out.description = raw.description
              /\ out.created_at = raw.created_at
              /\ out.updated_at = raw.updated_at
              /\ out.category =
                    (IF raw.category = NoneV THEN <<>> ELSE raw.category)
              /\ Len(out.translations) = Len(raw.translations)
              /\ \A i \in 1..Len(raw.translations) :
                    \A f \in TranslationFields :
                        out.translations[i][f] = raw.translations[i][f]

\* a well-formed record with a null category and two different translations
\* was shaped
C14_Witness ==
    /\ ShaperCalled
    /\ WellFormed(ShapedRaw)
    /\ ShapedRaw.category = NoneV
    /\ Len(ShapedRaw.translations) = 2
    /\ ShapedRaw.translations[1] # ShapedRaw.translations[2]
    /\ ~resp.body.raised
    /\ The(resp.body.returned).category = <<>>
    /\ The(resp.body.returned).translations[1].id = T1

\* C15: after a successful lookup the value kept for a key is the first one
\* met in the order of the answer: that of the first translation in the
\* locale of the first returned record that carries the key and has one
C15_FirstEncounteredKept ==
    LookupSucceeded =>
        LET data == calls[1].data
            locale == req.path[3]
            loc == resp.body.localizations
        IN \A k \in DOMAIN loc :
              LET I == {i \in 1..Len(data) :
                          data[i].key = k /\ HasLocale(data[i], locale)}
                  ts == data[Min(I)].translations
                  J == {j \in 1..Len(ts) : ts[j].language_code = locale}
              IN loc[k] = ts[Min(J)].value

\* the handlers that use the datastore
DatastoreHandlers ==
    {"health_check", "get_localizations", "get_translation_key",
     "get_translation_keys", "update_translation",
     "bulk_update_translations"}

\* C16: when the client is missing, a handler that uses the datastore (its
\* request having passed validation) attempts no datastore operation and
\* answers 500, except the health check and the localization lookup, which
\* answer 200 with the error in the body
C16_ClientMissingPolicy ==
    ( /\ supabase = "None"
      /\ resp.endpoint \in DatastoreHandlers
      /\ resp.status # 422 )
    => /\ calls = <<>>
       /\ IF resp.endpoint = "health_check"
          THEN /\ resp.status = 200
               /\ resp.body.status = <<"unhealthy">>
               /\ "error" \in DOMAIN resp.body
          ELSE IF resp.endpoint = "get_localizations"
          THEN /\ resp.status = 200
               /\ DOMAIN resp.body.localizations = {<<"error">>}
          ELSE resp.status = 500

\* C17: the timestamp in the answer of a successful single update is the
\* updated_at the request wrote to the row
C17_TimestampIsWritten ==
    ( /\ resp.endpoint = "update_translation"
      /\ resp.status = 200 )
    => /\ Len(calls) = 1
       /\ resp.body.timestamp = The(calls[1].payload).updated_at
       /\ \A k \in 1..Len(translations) :
             translations[k].id = req.path[2] =>
                 translations[k].updated_at = resp.body.timestamp

ReadHandlers ==
    {"root", "health_check", "get_localizations", "get_translation_key",
     "get_translation_keys"}
UpdateHandlers == {"update_translation", "bulk_update_translations"}

\* the translation ids the answered request asked to update
RequestedIds ==
    IF resp.endpoint = "update_translation" THEN {req.path[2]}
    ELSE IF resp.endpoint = "bulk_update_translations" THEN SubmittedIds
    ELSE {}

\* one step leaves translation_keys as it is, creates and deletes no row,
\* changes no id, language_code or key reference, changes a translations row
\* only when an update handler answered a request for that row's id, and in
\* that row only value, updated_by and updated_at; a read handler sends only
\* selects, and an update only carries the three fields
C18_Step ==
    /\ translation_keys' = translation_keys
    /\ Len(translations') = Len(translations)
    /\ \A k \in 1..Len(translations) :
          /\ translations'[k].id = translations[k].id
          /\ translations'[k].language_code = translations[k].language_code
          /\ translations'[k].translation_key_id =
                translations[k].translation_key_id
          /\ translations'[k] # translations[k] =>
                /\ resp'.endpoint \in UpdateHandlers
                /\ translations[k].id \in RequestedIds'
    /\ resp'.endpoint \in ReadHandlers =>
          /\ translations' = translations
          /\ \A i \in 1..Len(calls') : calls'[i].op = "select"
    /\ \A i \in 1..Len(calls') :
          calls'[i].op = "update" =>
              /\ resp'.endpoint \in UpdateHandlers
              /\ calls'[i].table = "translations"
              /\ DOMAIN The(calls'[i].payload) =
                    {"value", "updated_by", "updated_at"}
              /\ calls'[i].filters[1].arg \in RequestedIds'
\* C18: every step of every sequence of requests satisfies C18_Step
C18_Frame == [][C18_Step]_vars

\* a single update changed the row it named, the other row is as it was
\* created
C18_Witness ==
    /\ resp.endpoint = "update_translation"
    /\ resp.status = 200
    /\ req.path[2] = T1
    /\ translations[1].id = T1
    /\ translations[1].value = The(req.body.value)
    /\ translations[1].value # InitTranslations[1].value
    /\ translations[2] = InitTranslations[2]
    /\ translation_keys = InitTranslationKeys

\* every concurrent request has returned
AllDone ==
    /\ running # <<>>
    /\ \A p \in 1..Len(running) : running[p].response # <<>>

OwnIds(l) == {l.updates[i][1] : i \in 1..Len(l.updates)}
RowExists(id) == \E k \in 1..Len(translations) : translations[k].id = id

\* the answer of request p says that its update of id succeeded
ReportsSuccess(l, id) ==
    /\ l.response # <<>>
    /\ id \in OwnIds(l)
    /\ IF l.kind = "bulk" THEN l.response[1].body.results[id].success
       ELSE l.response[1].status = 200

\* the answer of a request is about its own ids only: a bulk answer has one
\* entry per own id, each decided by the request's own update (its own value
\* on success), and counts that add up to its own number of ids; a single
\* answer names its own id and actor
OwnAnswer(l) ==
    LET r == l.response[1]
        n == Len(l.updates)
    IN IF l.kind = "bulk"
       THEN /\ r.status = 200
            /\ DOMAIN r.body.results = OwnIds(l)
            /\ r.body.summary.total_attempted = n
            /\ r.body.summary.successful_updates
                  + r.body.summary.failed_updates = n
            /\ r.body.summary.successful_updates =
                  Cardinality({id \in OwnIds(l) : r.body.results[id].success})
            /\ r.body.updated_by = l.updated_by
            /\ \A i \in 1..n :
                  LET entry == r.body.results[l.updates[i][1]]
                  IN IF RowExists(l.updates[i][1])
                     THEN entry \in {[success |-> TRUE,
                                      value |-> l.updates[i][2]],
                                     [success |-> FALSE, error |-> DbError]}
                     ELSE entry \in {[success |-> FALSE,
                                      error |-> <<"Translation not found">>],
                                     [success |-> FALSE, error |-> DbError]}
       ELSE /\ r.status \in {200, 404, 500}
            /\ r.status = 200 =>
                  /\ RowExists(l.updates[1][1])
                  /\ r.body.translation_id = l.updates[1][1]
                  /\ r.body.updated_by = l.updated_by
            /\ r.status = 404 => ~RowExists(l.updates[1][1])

\* the row holds the write the datastore applied to it last, which is the
\* value and actor of a request whose answer reports that update as a
\* success; a row no request reports as updated is as it was
LastWriteWins(k) ==
    LET row == translations[k]
        W == {i \in 1..Len(calls) : calls[i].filters[1].arg = row.id}
    IN IF W = {}
       THEN /\ row = InitTranslations[k]
            /\ \A p \in 1..Len(running) : ~ReportsSuccess(running[p], row.id)
       ELSE /\ \A i \in W :
                  /\ row.value = The(calls[i].payload).value
                  /\ row.updated_by = The(calls[i].payload).updated_by
            /\ \E p \in 1..Len(running) :
                  /\ ReportsSuccess(running[p], row.id)
                  /\ running[p].updated_by = row.updated_by
                  /\ \E i \in 1..Len(running[p].updates) :
                        running[p].updates[i] = <<row.id, row.value>>

\* C19: under every interleaving of the concurrent update requests, each
\* answer holds exactly the request's own ids with counts that add up to
\* their number, and once all requests have returned every row holds the
\* value and actor of the update the datastore applied to it last, one of
\* the requested ones
C19_ConcurrentUpdates ==
    /\ \A p \in 1..Len(running) :
          running[p].response # <<>> => OwnAnswer(running[p])
    /\ AllDone => \A k \in 1..Len(translations) : LastWriteWins(k)

\* two bulk requests on the same two rows have both returned, each
\* reporting both updates as successes, and the first row holds the second
\* request's value while the second row holds the first request's: an
\* outcome no serial order of the two requests gives
C19_Witness ==
    /\ AllDone
    /\ running[1].kind = "bulk"
    /\ running[2].kind = "bulk"
    /\ \A id \in {T1, T2} :
          ReportsSuccess(running[1], id) /\ ReportsSuccess(running[2], id)
    /\ \E i, j \in 1..MaxBatch :
          /\ translations[1].value = ValueOf(2, i)
          /\ translations[2].value = ValueOf(1, j)

====
